---- MODULE Spec2Model ----
(***************************************************************************)
(* linez: approximating a target image by random lines (src/main.rs).      *)
(*                                                                         *)
(* The model follows main(): the driving loop, the scoped worker threads   *)
(* running tick() on their own approximation, compose() and the window     *)
(* update.  Images keep the flat byte buffer of the source; f32 sums are   *)
(* modelled on integers with the rounding of a 24-bit significand.         *)
(***************************************************************************)
EXTENDS Integers, Sequences, FiniteSets, TLC

VARIABLES
    args,       \* Args: [threads, iterations]
    target,     \* Image: [width, height, pixels]
    approxes,   \* Vec<Image>, one per thread
    canvas,     \* Vec<u32>, the window buffer
    pc,         \* position of main(): "loop", "batch", "compose", "update", "exit"
    iter,       \* per worker: iterations of `for _ in 0..args.iterations` done
    quit,       \* the window was closed or Escape is down
    last,       \* the most recent tick() call of the batch: its thread and its draws
    result,     \* the loss_delta that call computed and the value it returned
    probe       \* the most recent direct loss_delta/apply call (SpecDelta only)

vars == <<args, target, approxes, canvas, pc, iter, quit, last, result, probe>>

None == [worker |-> 0]
NoResult == [loss_delta |-> 0, ret |-> FALSE]
NoProbe == [changes |-> <<>>]

(***************************************************************************)
(* Bounds of the model.                                                    *)
(***************************************************************************)
Threads == 2
Iterations == 2
TickW == 4
TickH == 3
MaxChanges == 2

(***************************************************************************)
(* f32 arithmetic on integer values.                                       *)
(***************************************************************************)
\* below 2^24 every integer is an f32
F32Exact == 16777216

Abs(n) == IF n < 0 THEN -n ELSE n

\* spacing of the f32 values around magnitude m
RECURSIVE Ulp(_)
Ulp(m) == IF m < F32Exact THEN 1 ELSE 2 * Ulp(m \div 2)

\* round to nearest, ties to even significand
F32Round(n) ==
    IF Abs(n) < F32Exact THEN n
    ELSE LET m == Abs(n)
             q == Ulp(m)
             lo == (m \div q) * q
             r == m - lo
             v == IF 2 * r < q THEN lo
                  ELSE IF 2 * r > q THEN lo + q
                  ELSE IF (lo \div q) % 2 = 0 THEN lo ELSE lo + q
         IN  IF n < 0 THEN -v ELSE v

F32Add(a, b) == F32Round(a + b)

\* TLC hands an operator its arguments unevaluated, and a long fold then nests
\* as deep as it is long.  Then(v, e) is e, with v evaluated first; the folds
\* below run over the first half of their range and then over the second.
Then(v, e) == IF v = v THEN e ELSE e

\* Iterator::sum() for f32: a left fold of + from 0.0
RECURSIVE F32SumRange(_, _, _, _)
F32SumRange(s, lo, hi, acc) ==
    IF lo > hi THEN acc
    ELSE IF lo = hi THEN F32Add(acc, s[lo])
    ELSE LET mid == (lo + hi) \div 2
             left == F32SumRange(s, lo, mid, acc)
         IN  Then(left, F32SumRange(s, mid + 1, hi, left))

F32Sum(s) == F32SumRange(s, 1, Len(s), 0)

(***************************************************************************)
(* Image                                                                   *)
(***************************************************************************)
Channels == 3

Offset(img, point) == (point[2] * img.width + point[1]) * Channels

color_at(img, point) ==
    LET offset == Offset(img, point)
    IN  <<img.pixels[offset + 1], img.pixels[offset + 2], img.pixels[offset + 3]>>

\* *self.color_at_mut(pos) = col
set_color_at(img, point, col) ==
    LET offset == Offset(img, point)
    IN  [img EXCEPT !.pixels =
            SubSeq(img.pixels, 1, offset) \o col
                \o SubSeq(img.pixels, offset + Channels + 1, Len(img.pixels))]

pixel_loss(a, b) ==
    F32Sum([k \in 1..Channels |-> F32Round((a[k] - b[k]) * (a[k] - b[k]))])

loss_delta(tgt, approx, changes) ==
    F32Sum([k \in 1..Len(changes) |->
        LET pos == changes[k][1]
            new_col == changes[k][2]
            target_color == color_at(tgt, pos)
            approx_color == color_at(approx, pos)
            loss_without_changes == pixel_loss(target_color, approx_color)
            loss_with_changes == pixel_loss(target_color, new_col)
        IN  F32Round(loss_with_changes - loss_without_changes)])

\* `for (pos, col) in changes`: changes[lo..hi] in order, by halves
RECURSIVE ApplyRange(_, _, _, _)
ApplyRange(img, changes, lo, hi) ==
    IF lo > hi THEN img
    ELSE IF lo = hi THEN set_color_at(img, changes[lo][1], changes[lo][2])
    ELSE LET mid == (lo + hi) \div 2
             left == ApplyRange(img, changes, lo, mid)
         IN  Then(left, ApplyRange(left, changes, mid + 1, hi))

apply(img, changes) == ApplyRange(img, changes, 1, Len(changes))

\* Image::from(RgbImage::new(width, height)): all bytes zero
BlankImage(w, h) ==
    [width |-> w, height |-> h,
     pixels |-> SubSeq([k \in 1..(w * h * Channels) |-> 0], 1, w * h * Channels)]

\* Image::from(img): the pixels' channels, row by row
ImageFrom(w, h, colors) ==
    [width |-> w, height |-> h,
     pixels |-> SubSeq([k \in 1..(w * h * Channels) |->
                    colors[((k - 1) \div Channels) + 1][((k - 1) % Channels) + 1]],
                    1, w * h * Channels)]

(***************************************************************************)
(* bresenham::Bresenham, the line iterator tick() uses (external crate):   *)
(* the start point is yielded, the end point is not.                       *)
(***************************************************************************)
OctantFromPoints(start, end) ==
    LET dx0 == end[1] - start[1]
        dy0 == end[2] - start[2]
        flip == dy0 < 0
        dx1 == IF flip THEN -dx0 ELSE dx0
        dy1 == IF flip THEN -dy0 ELSE dy0
        o1 == IF flip THEN 4 ELSE 0
        rot == dx1 < 0
        dx2 == IF rot THEN dy1 ELSE dx1
        dy2 == IF rot THEN -dx1 ELSE dy1
        o2 == IF rot THEN o1 + 2 ELSE o1
    IN  IF dx2 < dy2 THEN o2 + 1 ELSE o2

ToOctant0(octant, p) ==
    CASE octant = 0 -> <<p[1], p[2]>>
      [] octant = 1 -> <<p[2], p[1]>>
      [] octant = 2 -> <<p[2], -p[1]>>
      [] octant = 3 -> <<-p[1], p[2]>>
      [] octant = 4 -> <<-p[1], -p[2]>>
      [] octant = 5 -> <<-p[2], -p[1]>>
      [] octant = 6 -> <<-p[2], p[1]>>
      [] octant = 7 -> <<p[1], -p[2]>>

FromOctant0(octant, p) ==
    CASE octant = 0 -> <<p[1], p[2]>>
      [] octant = 1 -> <<p[2], p[1]>>
      [] octant = 2 -> <<-p[2], p[1]>>
      [] octant = 3 -> <<-p[1], p[2]>>
      [] octant = 4 -> <<-p[1], -p[2]>>
      [] octant = 5 -> <<-p[2], -p[1]>>
      [] octant = 6 -> <<p[2], -p[1]>>
      [] octant = 7 -> <<p[1], -p[2]>>

\* Iterator::next on the iterator `it`: the point yielded is appended to it.out
BresenhamNext(it) ==
    LET p == <<it.x, it.y>>
        step == it.diff >= 0
    IN  [it EXCEPT !.y = IF step THEN @ + 1 ELSE @,
                   !.diff = (IF step THEN @ - it.dx ELSE @) + it.dy,
                   !.x = @ + 1,
                   !.out = Append(@, FromOctant0(it.octant, p))]

\* up to n calls of next, by halves; `self.x >= self.x1` ends the iteration
RECURSIVE BresenhamTake(_, _)
BresenhamTake(it, n) ==
    IF n <= 0 \/ it.x >= it.x1 THEN it
    ELSE IF n = 1 THEN BresenhamNext(it)
    ELSE LET half == BresenhamTake(it, n \div 2)
         IN  IF half.x >= half.x1 THEN half
             ELSE BresenhamTake(half, n - n \div 2)

\* Bresenham::new(start, end), iterated until `self.x >= self.x1`
Bresenham(start, end) ==
    LET octant == OctantFromPoints(start, end)
        s == ToOctant0(octant, start)
        e == ToOctant0(octant, end)
        dx == e[1] - s[1]
        dy == e[2] - s[2]
        it == [x |-> s[1], y |-> s[2], dx |-> dx, dy |-> dy, x1 |-> e[1],
               diff |-> dy - dx, octant |-> octant, out |-> <<>>]
    IN  BresenhamTake(it, e[1] - s[1]).out

(***************************************************************************)
(* tick                                                                    *)
(***************************************************************************)
\* mutant: gen_range(lo..=hi)
gen_range_inclusive(lo, hi) == lo..hi

\* rng.gen_range(lo..hi): the half-open range
gen_range(lo, hi) == lo..(hi - 1)

ColorHi == 255

\* the filter of the `changes` closure
InBounds(width, height, p) ==
    p[1] >= 0 /\ p[1] < width /\ p[2] >= 0 /\ p[2] < height

\* the `changes` closure: the line's points inside the image, each with the colour
Changes(width, height, beg, end, col) ==
    LET raw == Bresenham(beg, end)
        kept == SelectSeq(raw, LAMBDA p: InBounds(width, height, p))
    IN  [k \in 1..Len(kept) |-> <<kept[k], col>>]

\* mutant: `if loss_delta > 0.0`
RejectedStrict(delta) == delta > 0

\* `if loss_delta >= 0.0 { return false; }`
Rejected(delta) == delta >= 0

\* tick(): the image it leaves behind, the loss_delta it computed, its result
TickOutcome(tgt, approx, beg, end, col) ==
    LET changes == Changes(tgt.width, tgt.height, beg, end, col)
        delta == loss_delta(tgt, approx, changes)
    IN  IF Rejected(delta)
        THEN [image |-> approx, loss_delta |-> delta, ret |-> FALSE]
        ELSE [image |-> apply(approx, changes), loss_delta |-> delta, ret |-> TRUE]

\* mutant: every thread draws on the first image
TickApproxesShared(imgs, i, image) == [imgs EXCEPT ![1] = image]

\* `tick(&mut rng, &target, approx)` in the thread spawned for approxes[i]
TickApproxes(imgs, i, image) == [imgs EXCEPT ![i] = image]

(***************************************************************************)
(* compose                                                                 *)
(***************************************************************************)
\* Iterator::min_by: of equal minima the first is kept
RECURSIVE MinByFrom(_, _, _)
MinByFrom(items, k, best) ==
    IF k > Len(items) THEN best
    ELSE MinByFrom(items, k + 1, IF best[2] > items[k][2] THEN items[k] ELSE best)

\* mutant: of equal minima the last is kept
RECURSIVE MinByLastFrom(_, _, _)
MinByLastFrom(items, k, best) ==
    IF k > Len(items) THEN best
    ELSE MinByLastFrom(items, k + 1, IF best[2] >= items[k][2] THEN items[k] ELSE best)

MinByLast(items) == MinByLastFrom(items, 2, items[1])

MinBy(items) == MinByFrom(items, 2, items[1])

Winner(tgt, images, point) ==
    LET target_color == color_at(tgt, point)
        scored == [i \in 1..Len(images) |->
                    LET color == color_at(images[i], point)
                    IN  <<color, pixel_loss(color, target_color)>>]
    IN  MinBy(scored)[1]

\* mutant: u32::from_le_bytes
FromLeBytes(b) == ((b[4] * 256 + b[3]) * 256 + b[2]) * 256 + b[1]

\* u32::from_be_bytes
FromBeBytes(b) == ((b[1] * 256 + b[2]) * 256 + b[3]) * 256 + b[4]

Pack(color) == FromBeBytes(<<0, color[1], color[2], color[3]>>)

\* the k-th value written through `buf`: rows of y, columns of x
compose(cv, tgt, images) ==
    [k \in 1..Len(cv) |->
        IF k <= tgt.width * tgt.height
        THEN Pack(Winner(tgt, images, <<(k - 1) % tgt.width, (k - 1) \div tgt.width>>))
        ELSE cv[k]]

(***************************************************************************)
(* main: the driving loop                                                  *)
(***************************************************************************)
Points(img) ==
    {<<x, y>> : x \in gen_range(0, img.width), y \in gen_range(0, img.height)}

\* mutant: gen_range(0..=255)
DrawableInclusive(probes) ==
    {c \in probes : \A k \in 1..Channels : c[k] \in 0..255}

\* the colours the three gen_range(0..255) draws can give, among `probes`
Drawable(probes) ==
    {c \in probes : \A k \in 1..Channels : c[k] \in gen_range(0, ColorHi)}

Black == <<0, 0, 0>>
Red == <<254, 0, 0>>
Green == <<0, 254, 0>>
Grey == <<254, 254, 254>>
White == <<255, 255, 255>>

\* mutant: the scope returns with the first finished thread
AnyJoined(it, n) == \E i \in DOMAIN it : it[i] = n

\* `for _ in 0..args.iterations` has run out in every spawned thread
AllJoined(it, n) == \A i \in DOMAIN it : it[i] = n

\* while window.is_open() && !window.is_key_down(Key::Escape)
Loop ==
    /\ pc = "loop"
    /\ IF quit
       THEN pc' = "exit" /\ iter' = iter
       ELSE pc' = "batch" /\ iter' = [i \in 1..args.threads |-> 0]
    /\ UNCHANGED <<args, target, approxes, canvas, quit, last, result, probe>>

\* one iteration of one worker's loop: tick(&mut rng, &target, approx)
Tick(i, beg, end, col) ==
    /\ pc = "batch"
    /\ i \in 1..args.threads
    /\ iter[i] < args.iterations
    /\ beg \in Points(target)
    /\ end \in Points(target)
    /\ col \in Drawable({col})
    /\ LET out == TickOutcome(target, approxes[i], beg, end, col)
       IN  /\ approxes' = TickApproxes(approxes, i, out.image)
           /\ last' = [worker |-> i, beg |-> beg, end |-> end, col |-> col]
           /\ result' = [loss_delta |-> out.loss_delta, ret |-> out.ret]
    /\ iter' = [iter EXCEPT ![i] = @ + 1]
    /\ UNCHANGED <<args, target, canvas, pc, quit, probe>>

\* thread::scope returns once every spawned thread has finished
Join ==
    /\ pc = "batch"
    /\ AllJoined(iter, args.iterations)
    /\ pc' = "compose"
    /\ last' = None
    /\ result' = NoResult
    /\ UNCHANGED <<args, target, approxes, canvas, iter, quit, probe>>

Compose ==
    /\ pc = "compose"
    /\ canvas' = compose(canvas, target, approxes)
    /\ pc' = "update"
    /\ UNCHANGED <<args, target, approxes, iter, quit, last, result, probe>>

\* window.update_with_buffer(&canvas, width, height)
Update ==
    /\ pc = "update"
    /\ pc' = "loop"
    /\ UNCHANGED <<args, target, approxes, canvas, iter, quit, last, result, probe>>

\* the user closes the window or presses Escape, at any moment
UserQuit ==
    /\ pc # "exit"
    /\ ~quit
    /\ quit' = TRUE
    /\ UNCHANGED <<args, target, approxes, canvas, pc, iter, last, result, probe>>

\* main() up to the first evaluation of the loop condition
Start(a, tgt) ==
    /\ args = a
    /\ target = tgt
    /\ approxes = [i \in 1..a.threads |-> BlankImage(tgt.width, tgt.height)]
    /\ canvas = [k \in 1..(tgt.width * tgt.height) |-> 0]
    /\ pc = "loop"
    /\ iter = [i \in 1..a.threads |-> 0]
    /\ quit = FALSE
    /\ last = None
    /\ result = NoResult
    /\ probe = NoProbe

(***************************************************************************)
(* Spec: several workers on a small target.                                *)
(***************************************************************************)
SmallTarget == ImageFrom(2, 1, <<White, Black>>)

SmallColors == {Red, Green, White}

\* the end points sampled: with the begin points, a line over pixel (0,0) and an empty one
SmallEnds == {<<1, 0>>}

Init == Start([threads |-> Threads, iterations |-> Iterations], SmallTarget)

Next ==
    \/ Loop
    \/ \E i \in 1..Threads, beg \in Points(target), end \in SmallEnds,
          col \in Drawable(SmallColors) : Tick(i, beg, end, col)
    \/ Join
    \/ Compose
    \/ Update
    \/ UserQuit

Spec == Init /\ [][Next]_vars

(***************************************************************************)
(* SpecTick: one worker, every line of a TickW x TickH target.             *)
(***************************************************************************)
TickTarget ==
    ImageFrom(TickW, TickH,
        [k \in 1..(TickW * TickH) |-> IF k = 1 THEN White ELSE Black])

TickColors == {Red, White}

InitTick == Start([threads |-> 1, iterations |-> 1], TickTarget)

NextTick ==
    \/ Loop
    \/ \E beg \in Points(target), end \in Points(target),
          col \in Drawable(TickColors) : Tick(1, beg, end, col)
    \/ Join
    \/ Compose
    \/ Update

SpecTick == InitTick /\ [][NextTick]_vars

(***************************************************************************)
(* SpecF32: one worker on a 181 x 1 target whose long lines sum more than  *)
(* 2^24 of loss, so that the f32 sum of loss_delta rounds.                 *)
(***************************************************************************)
NearGrey == <<254, 254, 253>>

Repeat(n, c) == [k \in 1..n |-> c]

F32Target ==
    ImageFrom(181, 1,
        Repeat(87, White) \o Repeat(4, <<254, 254, 203>>) \o <<<<254, 254, 201>>>>
            \o Repeat(87, Black) \o <<<<121, 0, 0>>, Black>>)

F32Begs == {0, 87}

F32Ends == {92, 180}

F32Colors == {NearGrey, Grey}

InitF32 == Start([threads |-> 1, iterations |-> 1], F32Target)

NextF32 ==
    \/ Loop
    \/ \E bx \in F32Begs, ex \in F32Ends, col \in Drawable(F32Colors) :
            Tick(1, <<bx, 0>>, <<ex, 0>>, col)
    \/ Join
    \/ Compose
    \/ Update

SpecF32 == InitF32 /\ [][NextF32]_vars

(***************************************************************************)
(* SpecDelta: Image::loss_delta and Image::apply called directly on change *)
(* sets of up to MaxChanges entries, repeated points included, and on the  *)
(* lines of SpecF32.                                                       *)
(***************************************************************************)
DeltaTargets == {ImageFrom(2, 1, <<White, <<100, 0, 0>>>>), F32Target}

DeltaColors == {Black, Red, Grey}

RECURSIVE SeqsUpTo(_, _)
SeqsUpTo(S, n) ==
    IF n = 0 THEN {<<>>}
    ELSE LET shorter == SeqsUpTo(S, n - 1)
         IN  shorter \cup {Append(q, e) : q \in shorter, e \in S}

ChangeSets(tgt) ==
    IF tgt.width > 2
    THEN {Changes(tgt.width, tgt.height, <<l[1], 0>>, <<l[2], 0>>, l[3]) :
            l \in {<<87, 92, NearGrey>>, <<0, 180, Grey>>, <<0, 87, Grey>>}}
    ELSE SeqsUpTo(Points(tgt) \X DeltaColors, MaxChanges)

InitDelta ==
    /\ \E tgt \in DeltaTargets : Start([threads |-> 1, iterations |-> 1], tgt)

\* loss_delta(target, approx, changes), then approx.apply(changes)
Probe(changes) ==
    /\ pc = "loop"
    /\ probe' = [changes |-> changes,
                 loss_delta |-> loss_delta(target, approxes[1], changes),
                 before |-> approxes[1]]
    /\ approxes' = [approxes EXCEPT ![1] = apply(approxes[1], changes)]
    /\ UNCHANGED <<args, target, canvas, pc, iter, quit, last, result>>

NextDelta == \E changes \in ChangeSets(target) : Probe(changes)

SpecDelta == InitDelta /\ [][NextDelta]_vars

(***************************************************************************)
(* SpecLive: one worker ticking for ever, every proposal drawn again and   *)
(* again.                                                                  *)
(***************************************************************************)
LiveColors == {Black, Red, Grey, White}

LivePoints == {<<0, 0>>, <<1, 0>>}

\* the colours drawn: Black is never accepted over a black start
LiveDraws == {Red, Grey}

LiveTargets == {ImageFrom(2, 1, <<a, b>>) : a \in LiveColors, b \in LiveColors}

InitLive == \E tgt \in LiveTargets : Start([threads |-> 1, iterations |-> 1], tgt)

NextLive ==
    \/ Loop
    \/ \E beg \in LivePoints, end \in LivePoints, col \in Drawable(LiveDraws \cup {White}) :
            Tick(1, beg, end, col)
    \/ Join
    \/ Compose
    \/ Update

\* the main thread moves on: the loop condition, the join, compose, the update
MainStep ==
    \/ pc = "loop" /\ pc' = (IF quit THEN "exit" ELSE "batch")
    \/ pc = "batch" /\ AllJoined(iter, args.iterations) /\ pc' = "compose"
    \/ pc = "compose" /\ pc' = "update"
    \/ pc = "update" /\ pc' = "loop"

\* a tick() call whose draws are beg, end and col
Draw(i, beg, end, col) ==
    /\ pc = "batch"
    /\ iter[i] < args.iterations
    /\ last' = [worker |-> i, beg |-> beg, end |-> end, col |-> col]
    /\ iter' = [iter EXCEPT ![i] = @ + 1]

\* the main thread is scheduled, and every draw comes again and again
SpecLive ==
    /\ InitLive
    /\ [][NextLive]_vars
    /\ WF_pc(MainStep)
    /\ \A beg \in LivePoints, end \in LivePoints, col \in LiveDraws :
            SF_<<last, iter>>(Draw(1, beg, end, col))

(***************************************************************************)
(* Measures the claims are stated with: exact integer arithmetic.          *)
(***************************************************************************)
SqDist(a, b) ==
    (a[1] - b[1]) * (a[1] - b[1]) + (a[2] - b[2]) * (a[2] - b[2])
        + (a[3] - b[3]) * (a[3] - b[3])

PointOf(img, n) == <<n % img.width, n \div img.width>>

\* the loss of pixels lo..hi (numbered row by row from 0), summed by halves
RECURSIVE LossOfRange(_, _, _, _)
LossOfRange(tgt, img, lo, hi) ==
    IF lo > hi THEN 0
    ELSE IF lo = hi
    THEN SqDist(color_at(tgt, PointOf(tgt, lo)), color_at(img, PointOf(tgt, lo)))
    ELSE LET mid == (lo + hi) \div 2
         IN  LossOfRange(tgt, img, lo, mid) + LossOfRange(tgt, img, mid + 1, hi)

TotalLoss(tgt, img) == LossOfRange(tgt, img, 0, tgt.width * tgt.height - 1)

\* a step of the batch in which some worker ran tick()
TickStep == pc = "batch" /\ iter' # iter

LastChanges == Changes(target.width, target.height, last.beg, last.end, last.col)

Unpack(v) == <<(v \div 65536) % 256, (v \div 256) % 256, v % 256>>

(***************************************************************************)
(* C3: tick changes the approximation exactly when the loss delta it       *)
(* computed is negative: on delta >= 0 it returns false and leaves every   *)
(* pixel as it was; on delta < 0 it returns true, every point of the       *)
(* change set holds the line's colour and every other pixel is unchanged.  *)
(***************************************************************************)
C3_TickContract ==
    [][TickStep =>
        LET i == last'.worker
            col == last'.col
            changes == Changes(target.width, target.height, last'.beg, last'.end, col)
            touched == {changes[k][1] : k \in 1..Len(changes)}
            delta == loss_delta(target, approxes[i], changes)
        IN  /\ result'.loss_delta = delta
            /\ delta >= 0 => (result'.ret = FALSE /\ approxes' = approxes)
            /\ delta < 0 =>
                /\ result'.ret = TRUE
                /\ approxes' # approxes
                /\ \A p \in Points(target) :
                    color_at(approxes'[i], p) =
                        IF p \in touched THEN col ELSE color_at(approxes[i], p)
    ]_vars

C3_Witness ==
    /\ last.worker = 1
    /\ result.ret = TRUE
    /\ result.loss_delta < 0
    /\ Len(LastChanges) = 2
    /\ color_at(approxes[1], <<1, 1>>) = last.col

(***************************************************************************)
(* C4: at every pixel compose selects the colour of the lowest-indexed     *)
(* image whose loss against the target is minimal, so the selected         *)
(* colour's loss is at most that of every image at this pixel.             *)
(***************************************************************************)
C4_ComposeArgMin ==
    pc = "update" =>
        \A p \in Points(target) :
            LET t == color_at(target, p)
                n == Len(approxes)
                loss(i) == SqDist(color_at(approxes[i], p), t)
                first == CHOOSE i \in 1..n :
                            /\ \A j \in 1..n : loss(i) <= loss(j)
                            /\ \A j \in 1..(i - 1) : loss(j) > loss(i)
                chosen == Unpack(canvas[p[2] * target.width + p[1] + 1])
            IN  /\ chosen = color_at(approxes[first], p)
                /\ \A j \in 1..n : SqDist(chosen, t) <= loss(j)

\* two images tie at pixel (0,0) with different colours, a later one is worse
C4_Witness ==
    /\ pc = "update"
    /\ Len(approxes) >= 2
    /\ color_at(approxes[1], <<0, 0>>) = Green
    /\ color_at(approxes[2], <<0, 0>>) = Red
    /\ Unpack(canvas[1]) = Green

(***************************************************************************)
(* C5: every point the line between two points of the image yields lies    *)
(* inside the image: the bounds filter of tick drops nothing, and every    *)
(* point handed to color_at / color_at_mut indexes inside the buffer.      *)
(***************************************************************************)
C5_LineInBounds ==
    last.worker # 0 =>
        LET raw == Bresenham(last.beg, last.end)
        IN  /\ \A k \in 1..Len(raw) : InBounds(target.width, target.height, raw[k])
            /\ Len(LastChanges) = Len(raw)
            /\ \A k \in 1..Len(LastChanges) :
                /\ LastChanges[k][1] = raw[k]
                /\ Offset(target, LastChanges[k][1]) + Channels <= Len(target.pixels)

C5_Witness ==
    /\ last.worker = 1
    /\ last.beg = <<3, 2>>
    /\ last.end = <<0, 0>>
    /\ Len(LastChanges) = 3

(***************************************************************************)
(* C6: a tick of worker i changes approximation i only, as a function of   *)
(* that approximation, the target and the worker's own draw; the target    *)
(* and the other approximations stay as they are.                          *)
(***************************************************************************)
C6_WorkerIsolation ==
    [][TickStep =>
        LET i == last'.worker
        IN  /\ target' = target
            /\ \A j \in 1..Len(approxes) : j # i => approxes'[j] = approxes[j]
            /\ approxes'[i] =
                TickOutcome(target, approxes[i], last'.beg, last'.end, last'.col).image
            /\ iter' = [iter EXCEPT ![i] = @ + 1]
    ]_vars

C6_Witness ==
    /\ pc = "batch"
    /\ last.worker = 2
    /\ result.ret = TRUE
    /\ iter[1] > 0
    /\ approxes[1] # approxes[2]
    /\ approxes[1] = BlankImage(target.width, target.height)

(***************************************************************************)
(* C7: compose starts only once every worker has run all its iterations;   *)
(* no tick runs while compose and the window update run; the loop is left  *)
(* only at its condition, never out of a batch in progress.                *)
(***************************************************************************)
C7_Barrier ==
    [][/\ (pc' = "compose" /\ pc # "compose") =>
            (pc = "batch" /\ \A i \in 1..args.threads : iter[i] = args.iterations)
       /\ pc \in {"compose", "update"} => (approxes' = approxes /\ iter' = iter)
       /\ (pc' = "exit" /\ pc # "exit") => pc = "loop"
       /\ pc = "batch" => pc' \in {"batch", "compose"}
    ]_vars

\* the user quit while the batch ran; the batch was completed and composed
C7_Witness ==
    /\ pc = "compose"
    /\ quit
    /\ \A i \in 1..args.threads : iter[i] = args.iterations
    /\ \E i \in 1..args.threads : approxes[i] # BlankImage(target.width, target.height)

(***************************************************************************)
(* C8: after compose the window buffer holds, at index y*W + x, the value  *)
(* r*65536 + g*256 + b of the colour selected for pixel (x,y), top byte    *)
(* zero, W*H entries in all.                                               *)
(***************************************************************************)
C8_BufferLayout ==
    pc = "update" =>
        /\ Len(canvas) = target.width * target.height
        /\ \A x \in 0..(target.width - 1), y \in 0..(target.height - 1) :
            LET c == Winner(target, approxes, <<x, y>>)
                v == canvas[y * target.width + x + 1]
            IN  /\ v = c[1] * 65536 + c[2] * 256 + c[3]
                /\ v \div 16777216 = 0

C8_Witness ==
    /\ pc = "update"
    /\ target.width > 1
    /\ target.height > 1
    /\ canvas[1 * target.width + 0 + 1] = 254 * 65536
    /\ canvas[1] = 254 * 65536

(***************************************************************************)
(* C9: no channel of an approximation, nor of the composed buffer, ever    *)
(* holds 255: the images start black and tick writes drawn colours only.   *)
(***************************************************************************)
C9_No255 ==
    /\ \A i \in 1..Len(approxes) : \A k \in 1..Len(approxes[i].pixels) :
            approxes[i].pixels[k] \in 0..254
    /\ \A k \in 1..Len(canvas) : \A c \in 1..Channels : Unpack(canvas[k])[c] \in 0..254

C9_Witness ==
    /\ \E i \in 1..Len(approxes) : color_at(approxes[i], <<0, 0>>) = Red
    /\ color_at(target, <<0, 0>>) = White
    /\ Unpack(canvas[1])[1] = 254

(***************************************************************************)
(* C1: no tick leaves the total loss of an approximation, summed over all  *)
(* pixels against the target, higher than it was before the tick.          *)
(***************************************************************************)
C1_LossNeverGrows ==
    [][\A i \in 1..Len(approxes) :
        TotalLoss(target, approxes'[i]) <= TotalLoss(target, approxes[i])]_vars

(***************************************************************************)
(* C2: for every target, every approximation and every sequence of         *)
(* in-bounds changes, loss_delta is exactly the total loss after apply     *)
(* minus the total loss before it.                                         *)
(***************************************************************************)
C2_DeltaExactAnyChanges ==
    probe # NoProbe =>
        probe.loss_delta =
            TotalLoss(target, approxes[1]) - TotalLoss(target, probe.before)

(***************************************************************************)
(* C10: ticking for ever with every proposal drawn again and again, the    *)
(* total loss of the approximation reaches 0 and stays 0.                  *)
(***************************************************************************)
C10_LossConvergesToZero == <>[](TotalLoss(target, approxes[1]) = 0)

====
